---------------------------- MODULE Spec2Model ----------------------------
(***************************************************************************)
(* PrepImg.tweakwcs (src/PrepImg.py, lines 175-282): alignment of every    *)
(* filter's image on a reference filter.  For each non-reference image an  *)
(* exhaustive scan of integer pixel offsets asks TPMatch for the matched   *)
(* pairs at each offset, keeps the best one, re-runs the match there and   *)
(* fits/reprojects the image when at least 50 pairs are found.             *)
(*                                                                         *)
(* Python indices are kept 0-based: At(s, i) is s[i].  A filter token such *)
(* as 'F150W' is the pair <<"F", k>>, its lower-case spelling <<"f", k>>.  *)
(* The external matcher is deterministic: for one image it is a table      *)
(* from offsets to the number of pairs it returns (len(ridx)), the only    *)
(* thing of the match result that tweakwcs inspects.                       *)
(***************************************************************************)
EXTENDS Integers, Sequences, FiniteSets, TLC

\* ------------------------------------------------------------------ bounds
\* most filters (images) of a run
NumFilts == 3
\* size of the largest catalog, i.e. the greatest match count
CatSize == 100

\* ------------------------------------------------------- program constants
\* "if len(ridx) < 50"
Threshold == 50

\* ---------------------------------------------------------------- helpers
\* Python's range(a, b)
Range(a, b) == a .. (b - 1)

\* s[i] of a Python list
At(s, i) == s[i + 1]

SeqRange(s) == {s[k] : k \in 1 .. Len(s)}

SetMin(S) == CHOOSE m \in S : \A o \in S : m <= o
SetMax(S) == CHOOSE m \in S : \A o \in S : o <= m

\* filter tokens
NoFilt == <<"", 0>>
Filt(k) == <<"F", k>>
LowerFilt(k) == <<"f", k>>

\* str.upper() on a filter token
Upper(f) == <<IF f[1] = "f" THEN "F" ELSE f[1], f[2]>>

\* list.index(x): position of the first occurrence (callers test membership)
Index(s, x) == SetMin({k \in 0 .. (Len(s) - 1) : At(s, k) = x})

\* self.filts after construction: one 5-character token per image
FiltList(n) == [k \in 1 .. n |-> Filt(k)]

\* self.sci_img[i] and self.wht_img[i]: '{field}_{filt}_{extension}.fits'
SciFile(f) == <<"sci", f>>
WhtFile(f) == <<"wht", f>>

\* ------------------------------------------------------------ offset scan
\* a loop that stops one short: range(-3, 2)
RangeShort == Range(-3, 2)

\* "for xi in range(-3, 3)" and "for yi in range(-3, 3)"
XRange == Range(-3, 3)
YRange == Range(-3, 3)

\* a comparison turned round: len(ridx) <= matches_best
ImprovesInverted(n, best) == n <= best

\* a strict comparison: len(ridx) > matches_best
ImprovesStrict(n, best) == n > best

\* "if len(ridx) >= matches_best"
Improves(n, best) == n >= best

\* a loop body that moves the offset and forgets the count
UpdateBestNoCount(b, x, y, n) ==
    IF Improves(n, b.matches_best)
    THEN [xi_best |-> x, yi_best |-> y, matches_best |-> b.matches_best]
    ELSE b

\* body of the nested loop after the match: the best-offset state
\* b = [xi_best, yi_best, matches_best] after seeing n pairs at (x, y)
UpdateBest(b, x, y, n) ==
    IF Improves(n, b.matches_best)
    THEN [xi_best |-> x, yi_best |-> y, matches_best |-> n]
    ELSE b

\* a final match at the loop variables instead of the best offset
FinalOffsetLoopVars(x, y, xb, yb) == <<x, y>>

\* offset handed to the final TPMatch(... xoffset=xi_best, yoffset=yi_best)
FinalOffset(x, y, xb, yb) == <<xb, yb>>

\* a threshold test that also rejects exactly 50 pairs
TooFewOrEqual(n) == n <= Threshold

\* "if len(ridx) < 50"
TooFew(n) == n < Threshold

\* a branch that rewrites the science file only
ReprojectedSciOnly(f) == {SciFile(f)}

\* files rewritten by the two fits.writeto calls of the else branch
Reprojected(f) == {SciFile(f), WhtFile(f)}

\* ------------------------------------------------------ catalogs on disk
\* A catalog file: the filter whose sources it lists, the filter tokens
\* that occur in its path (all that "filt.upper() in file" looks at), and a
\* tag telling apart two files of one filter.
CatFile(k, toks, tag) == [filt |-> Filt(k), tokens |-> {Filt(t) : t \in toks}, tag |-> tag]

NoFile == [filt |-> NoFilt, tokens |-> {}, tag |-> "none"]

GoodDir(n) == [k \in 1 .. n |-> CatFile(k, {k}, "")]

Reverse(s) == [k \in 1 .. Len(s) |-> s[Len(s) + 1 - k]]

\* what glob(os.path.join(cat_dir, f'{self.field}_*_cat.txt')) can return
\* after sextract: the catalogs of the n filters in either order, or the
\* same with one catalog missing, one stale extra catalog of a filter, or
\* one catalog whose path holds a second filter token.
CatDirs(n) ==
    {GoodDir(n), Reverse(GoodDir(n))}
    \cup {SelectSeq(GoodDir(n), LAMBDA c : c.filt # Filt(k)) : k \in 1 .. n}
    \cup {GoodDir(n) \o <<CatFile(k, {k}, "old")>> : k \in 1 .. n}
    \cup {<<CatFile(k, {k}, "old")>> \o GoodDir(n) : k \in 1 .. n}
    \cup {[i \in 1 .. n |-> IF i = k THEN CatFile(k, {k, j}, "") ELSE CatFile(i, {i}, "")] :
            k \in 1 .. n, j \in 1 .. n}

\* "for file in cats: if filt.upper() in file: self.cats.append(file)"
FilesOf(filt, files) == SelectSeq(files, LAMBDA c : Upper(filt) \in c.tokens)

\* "for filt in self.filts: for file in cats: ..." from filter k on
RECURSIVE MakeCats(_, _, _)
MakeCats(fl, files, k) ==
    IF k > Len(fl) THEN <<>>
    ELSE FilesOf(fl[k], files) \o MakeCats(fl, files, k + 1)

\* ----------------------------------------------------------- match tables
\* offsets on which the matcher is tabulated: the search range -3..2
Offsets == ((0 - 3) .. 2) \X ((0 - 3) .. 2)

CountVals == {0, Threshold - 1, Threshold, CatSize}

\* a matcher that returns c1 pairs at p1, c2 at p2 and base elsewhere
TwoPeak(p1, c1, p2, c2, base) ==
    [p \in Offsets |-> IF p = p1 THEN c1 ELSE IF p = p2 THEN c2 ELSE base]

NoTable == [p \in Offsets |-> 0 - 1]

\* matcher behaviours of the pipeline runs: counts around the threshold
SmallTables ==
    {TwoPeak(<<0 - 3, 0 - 3>>, c1, <<0, 0>>, c2, 0) :
        c1 \in {0, Threshold}, c2 \in {0, Threshold - 1}}

\* matcher behaviours of the search runs: a peak anywhere in the grid and a
\* second one early, midway or late in the scan, over a flat background
SecondPeaks == {<<0 - 3, 2>>, <<0, 0>>, <<2, 0 - 3>>}

RichTables ==
    {TwoPeak(p1, c1, p2, c2, base) :
        p1 \in Offsets, p2 \in SecondPeaks, c1 \in CountVals, c2 \in {Threshold - 1, CatSize},
        base \in {0, Threshold - 1}}


\* ------------------------------------------------------------------ state
VARIABLES
    filts,          \* self.filts
    ref_filt,       \* the ref_filt argument, then the resolved reference filter
    cat_dir,        \* catalogs in cat_dir once SourceExtractor has run
    match_tables,   \* behaviours TPMatch can show on the catalogs of this run
    pc,             \* position in tweakwcs
    ref_idx,
    cats,           \* the glob result
    self_cats,      \* self.cats
    ref_catfile,
    input_catfile,
    idx,
    match,          \* TPMatch on (ref_cat, input_cat, input_wcs): offset -> pairs
    xi, yi,
    xi_best, yi_best, matches_best,
    ridx,           \* len(ridx) of the latest match
    open_files,     \* files with an open handle (fits.open without close)
    written,        \* files overwritten by fits.writeto
    fitted,         \* indices whose WCS was fitted (fit_wcs, update_wcs)
    messages,       \* indices reported by 'Matching failed: ...'
    processed,      \* indices that entered the loop body past the continue
    calls,          \* TPMatch invocations for the current image
    last            \* outcome of the previous image's search

inputs == <<filts, ref_filt, cat_dir, match_tables>>
catvars == <<cats, self_cats, ref_catfile, input_catfile>>
scanvars == <<match, xi, yi, xi_best, yi_best, matches_best, ridx, calls>>
effects == <<open_files, written, fitted, messages, processed, last>>
vars == <<inputs, pc, ref_idx, idx, catvars, scanvars, effects>>

sci_img == [k \in 1 .. Len(filts) |-> SciFile(filts[k])]
wht_img == [k \in 1 .. Len(filts) |-> WhtFile(filts[k])]

NoResult == [match |-> NoTable, xi_best |-> 0, yi_best |-> 0, ridx |-> 0 - 1]

\* values the ref_filt argument takes: None, a filter of the run in either
\* case, or a filter the run does not have
RefArgs(n) ==
    {NoFilt, Filt(n + 1)} \cup {Filt(k) : k \in 1 .. n} \cup {LowerFilt(k) : k \in 1 .. n}

Start ==
    /\ pc = "start"
    /\ ref_idx = 0 - 1
    /\ idx = 0 - 1
    /\ cats = <<>>
    /\ self_cats = <<>>
    /\ ref_catfile = NoFile
    /\ input_catfile = NoFile
    /\ match = NoTable
    /\ xi = 0 /\ yi = 0
    /\ xi_best = 0 /\ yi_best = 0 /\ matches_best = 0
    /\ ridx = 0
    /\ open_files = {}
    /\ written = {}
    /\ fitted = {}
    /\ messages = <<>>
    /\ processed = <<>>
    /\ calls = <<>>
    /\ last = NoResult

\* a pipeline run: any number of filters, any ref_filt, any catalog directory
Init ==
    /\ Start
    /\ \E n \in 1 .. NumFilts :
        /\ filts = FiltList(n)
        /\ ref_filt \in RefArgs(n)
        /\ cat_dir \in CatDirs(n)
    /\ match_tables = SmallTables

\* ---------------------------------------------------------------- actions
\* lines 177-185: the reference filter and its index (ValueError from
\* list.index when the filter is not one of self.filts)
SetRefFilt ==
    /\ pc = "start"
    /\ IF ref_filt = NoFilt
       THEN /\ ref_idx' = 0
            /\ ref_filt' = At(filts, 0)
            /\ pc' = "sextract"
       ELSE /\ ref_filt' = Upper(ref_filt)
            /\ IF Upper(ref_filt) \in SeqRange(filts)
               THEN /\ ref_idx' = Index(filts, Upper(ref_filt))
                    /\ pc' = "sextract"
               ELSE /\ ref_idx' = ref_idx
                    /\ pc' = "error"
    /\ UNCHANGED <<filts, cat_dir, match_tables, idx, catvars, scanvars, effects>>

\* lines 187-202: run SourceExtractor, glob the catalogs, build self.cats
RetrieveCats ==
    /\ pc = "sextract"
    /\ cats' = cat_dir
    /\ self_cats' = MakeCats(filts, cat_dir, 1)
    /\ pc' = "ref"
    /\ UNCHANGED <<inputs, ref_idx, idx, ref_catfile, input_catfile, scanvars, effects>>

\* lines 204-216: open the reference image, read the reference catalog
\* (IndexError from self.cats[ref_idx] leaves the handle open)
SetUpRef ==
    /\ pc = "ref"
    /\ open_files' = open_files \cup {At(sci_img, ref_idx)}
    /\ IF ref_idx < Len(self_cats)
       THEN /\ ref_catfile' = At(self_cats, ref_idx)
            /\ idx' = 0
            /\ pc' = "loop"
       ELSE /\ UNCHANGED <<ref_catfile, idx>>
            /\ pc' = "error"
    /\ UNCHANGED <<inputs, ref_idx, cats, self_cats, input_catfile, scanvars,
                   written, fitted, messages, processed, last>>

\* lines 218-223: next index of the loop; the reference index is skipped
NextFilt ==
    /\ pc = "loop"
    /\ IF idx >= Len(filts)
       THEN pc' = "close_ref" /\ idx' = idx
       ELSE IF idx = ref_idx
            THEN pc' = "loop" /\ idx' = idx + 1
            ELSE pc' = "input" /\ idx' = idx
    /\ UNCHANGED <<inputs, ref_idx, catvars, scanvars, effects>>

\* lines 225-247: open the science and weight images, read the input
\* catalog (IndexError from self.cats[idx]), reset the best-offset state and
\* enter the scan at its first offset
SetUpInput ==
    /\ pc = "input"
    /\ processed' = Append(processed, idx)
    /\ open_files' = open_files \cup {At(sci_img, idx), At(wht_img, idx)}
    /\ IF idx < Len(self_cats)
       THEN /\ input_catfile' = At(self_cats, idx)
            /\ match' \in match_tables
            /\ xi_best' = 0 /\ yi_best' = 0 /\ matches_best' = 0
            /\ xi' = SetMin(XRange) /\ yi' = SetMin(YRange)
            /\ calls' = <<>>
            /\ pc' = "scan"
       ELSE /\ UNCHANGED <<input_catfile, match, xi_best, yi_best, matches_best, xi, yi, calls>>
            /\ pc' = "error"
    /\ UNCHANGED <<inputs, ref_idx, idx, cats, self_cats, ref_catfile, ridx,
                   written, fitted, messages, last>>

\* lines 248-255: one pass of the inner loop body at (xi, yi), then the
\* loops' step to the next offset
ScanOffset ==
    /\ pc = "scan"
    /\ LET n == match[<<xi, yi>>]
           b == UpdateBest([xi_best |-> xi_best, yi_best |-> yi_best,
                            matches_best |-> matches_best], xi, yi, n)
       IN /\ ridx' = n
          /\ calls' = Append(calls, [xoffset |-> xi, yoffset |-> yi, pairs |-> n])
          /\ xi_best' = b.xi_best
          /\ yi_best' = b.yi_best
          /\ matches_best' = b.matches_best
    /\ IF yi < SetMax(YRange)
       THEN xi' = xi /\ yi' = yi + 1 /\ pc' = "scan"
       ELSE IF xi < SetMax(XRange)
            THEN xi' = xi + 1 /\ yi' = SetMin(YRange) /\ pc' = "scan"
            ELSE xi' = xi /\ yi' = yi /\ pc' = "rematch"
    /\ UNCHANGED <<inputs, ref_idx, idx, catvars, match, effects>>

\* lines 257-260: the match re-run at the best offset
MatchBest ==
    /\ pc = "rematch"
    /\ LET o == FinalOffset(xi, yi, xi_best, yi_best)
       IN /\ ridx' = match[o]
          /\ calls' = Append(calls, [xoffset |-> o[1], yoffset |-> o[2], pairs |-> match[o]])
    /\ pc' = "check"
    /\ UNCHANGED <<inputs, ref_idx, idx, catvars, match, xi, yi,
                   xi_best, yi_best, matches_best, effects>>

\* lines 263-264: too few matches, report it
MatchFailed ==
    /\ pc = "check"
    /\ TooFew(ridx)
    /\ messages' = Append(messages, idx)
    /\ pc' = "close"
    /\ UNCHANGED <<inputs, ref_idx, idx, catvars, scanvars,
                   open_files, written, fitted, processed, last>>

\* lines 267-278: fit the WCS, update both headers, reproject and
\* overwrite the science and weight files
TweakImage ==
    /\ pc = "check"
    /\ ~TooFew(ridx)
    /\ fitted' = fitted \cup {idx}
    /\ written' = written \cup Reprojected(At(filts, idx))
    /\ pc' = "close"
    /\ UNCHANGED <<inputs, ref_idx, idx, catvars, scanvars,
                   open_files, messages, processed, last>>

\* handles closed at the end of the loop body
ClosedAfterImage(i) == {At(sci_img, i)}

\* line 280: input_hdul.close(), back to the loop head
CloseInput ==
    /\ pc = "close"
    /\ open_files' = open_files \ ClosedAfterImage(idx)
    /\ last' = [match |-> match, xi_best |-> xi_best, yi_best |-> yi_best, ridx |-> ridx]
    /\ idx' = idx + 1
    /\ pc' = "loop"
    /\ UNCHANGED <<inputs, ref_idx, catvars, scanvars,
                   written, fitted, messages, processed>>

\* line 282: ref_hdul.close(), tweakwcs returns
CloseRef ==
    /\ pc = "close_ref"
    /\ open_files' = open_files \ {At(sci_img, ref_idx)}
    /\ pc' = "done"
    /\ UNCHANGED <<inputs, ref_idx, idx, catvars, scanvars,
                   written, fitted, messages, processed, last>>

Next ==
    \/ SetRefFilt
    \/ RetrieveCats
    \/ SetUpRef
    \/ NextFilt
    \/ SetUpInput
    \/ ScanOffset
    \/ MatchBest
    \/ MatchFailed
    \/ TweakImage
    \/ CloseInput
    \/ CloseRef

Spec == Init /\ [][Next]_vars

\* a search run: two filters, the default reference, one catalog per
\* filter, and any matcher behaviour of RichTables
InitSearch ==
    /\ Start
    /\ filts = FiltList(2)
    /\ ref_filt = NoFilt
    /\ cat_dir \in {GoodDir(2), Reverse(GoodDir(2))}
    /\ \E t \in RichTables : match_tables = {t}

SpecSearch == InitSearch /\ [][Next]_vars

\* ------------------------------------------------------- claim vocabulary
\* the scan of the current image has finished
ScanDone == pc \in {"rematch", "check", "close"}

\* the match at the best offset has been re-run
Rematched == pc \in {"check", "close"}

\* TPMatch invocations of the scan proper (without the final re-run)
ScanCalls == IF Rematched THEN SubSeq(calls, 1, Len(calls) - 1) ELSE calls

OffsetOf(c) == <<c.xoffset, c.yoffset>>

Best == <<xi_best, yi_best>>

\* the 36 offsets in scan order: xi ascending outside, yi ascending inside
ExpectedScan == [k \in 1 .. 36 |-> <<((k - 1) \div 6) - 3, ((k - 1) % 6) - 3>>]

FilesOfIdx(i) == {At(sci_img, i), At(wht_img, i)}

\* C1: when the scan of an image has finished, the selected offset is one
\* of the scanned offsets, no scanned offset has more matches than it, and
\* matches_best is its match count.
C1_BestIsMaximum ==
    ScanDone =>
        /\ \E k \in 1 .. Len(ScanCalls) :
            OffsetOf(ScanCalls[k]) = Best /\ ScanCalls[k].pairs = matches_best
        /\ \A k \in 1 .. Len(ScanCalls) : ScanCalls[k].pairs <= matches_best
        /\ match[Best] = matches_best

\* a finished scan whose maximum is the full catalog, found before the end
\* of the scan and followed by offsets with fewer matches
C1_Witness ==
    /\ ScanDone
    /\ matches_best = CatSize
    /\ Best # <<2, 2>>
    /\ match[<<2, 2>>] < CatSize
    /\ match[<<0 - 3, 0 - 3>>] < CatSize

\* C2: among the scanned offsets with the maximal match count the one
\* scanned last is selected; when every offset yields zero matches that is
\* the last grid point (2, 2), not the initial (0, 0).
C2_TieBreakLast ==
    ScanDone =>
        /\ \A k \in 1 .. Len(ScanCalls) :
            ScanCalls[k].pairs = matches_best =>
                \E j \in k .. Len(ScanCalls) : OffsetOf(ScanCalls[j]) = Best
        /\ \A k \in 1 .. Len(ScanCalls) :
            OffsetOf(ScanCalls[k]) = Best =>
                \A j \in (k + 1) .. Len(ScanCalls) : ScanCalls[j].pairs < matches_best
        /\ (\A p \in Offsets : match[p] = 0) => Best = <<2, 2>>

\* a finished scan with two offsets tied at a positive maximum
C2_Witness ==
    /\ ScanDone
    /\ matches_best > 0
    /\ \E j, k \in 1 .. Len(ScanCalls) :
        /\ j < k
        /\ ScanCalls[j].pairs = matches_best
        /\ ScanCalls[k].pairs = matches_best
        /\ OffsetOf(ScanCalls[k]) = Best

\* the outcome of the threshold test for the current image, as left by
\* lines 263-278
FailedHere == idx \in SeqRange(messages)
FittedHere == idx \in fitted

\* an exception ends the run only where a list lookup fails: list.index
\* (line 185), self.cats[ref_idx] (line 211) or self.cats[idx] (line 234)
OnlyLookupErrors ==
    pc = "error" =>
        \/ ref_idx = 0 - 1
        \/ ref_idx >= Len(self_cats)
        \/ idx >= Len(self_cats)

C3_Branch ==
    pc = "close" =>
        /\ ridx < 50 => FailedHere /\ ~FittedHere /\ FilesOfIdx(idx) \cap written = {}
        /\ ridx >= 50 => FittedHere /\ ~FailedHere /\ FilesOfIdx(idx) \subseteq written

C3_FailedStayUnfitted ==
    \A i \in SeqRange(messages) : i \notin fitted /\ FilesOfIdx(i) \cap written = {}

C3_AllProcessed ==
    pc = "done" =>
        /\ SeqRange(processed) = (0 .. (Len(filts) - 1)) \ {ref_idx}
        /\ SeqRange(processed) = SeqRange(messages) \cup fitted

C3_Step ==
    /\ pc = "check" /\ ridx < 50 =>
        /\ pc' = "close"
        /\ messages' = Append(messages, idx)
        /\ fitted' = fitted /\ written' = written
    /\ pc = "close" => pc' = "loop" /\ idx' = idx + 1
    /\ pc = "loop" /\ idx < Len(filts) /\ idx # ref_idx => pc' = "input"
    /\ pc = "loop" /\ idx >= Len(filts) => pc' = "close_ref"
    /\ pc = "close_ref" => pc' = "done"

\* C3: an image whose re-run match has fewer than 50 pairs is reported by a
\* message and is not fitted nor rewritten, then and later; the failure
\* raises nothing (the run only ever stops on a failed list lookup) and the
\* loop goes on with the next index until the list is exhausted and
\* tweakwcs returns, every non-reference index having been reported or
\* fitted; an image with at least 50 pairs is fitted and rewritten whatever
\* happened to the images before it.
C3_ThresholdNonFatal ==
    /\ [](C3_Branch /\ C3_FailedStayUnfitted /\ C3_AllProcessed /\ OnlyLookupErrors)
    /\ [][C3_Step]_vars

\* a run that returned after reporting one image and fitting a later one
C3_Witness ==
    /\ pc = "done"
    /\ \E i \in SeqRange(messages) : \E j \in fitted : i < j

\* C4: every handle opened by tweakwcs is closed again: between two images
\* at most the reference image is open, and nothing is open on return.
C4_HandlesClosed ==
    /\ pc = "loop" => open_files \subseteq {At(sci_img, ref_idx)}
    /\ pc = "done" => open_files = {}

\* C5: when the matcher returns the full catalog at exactly one offset of
\* the range -3..2 and fewer pairs everywhere else, the search selects that
\* offset and the re-run returns the full catalog.
C5_RecoversShift ==
    Rematched =>
        \A p \in Offsets :
            (match[p] = CatSize /\ \A q \in Offsets \ {p} : match[q] < CatSize) =>
                Best = p /\ matches_best = CatSize /\ ridx = CatSize

\* the shift (2, -1) recovered with the full catalog matched
C5_Witness ==
    /\ Rematched
    /\ match[<<2, 0 - 1>>] = CatSize
    /\ \A q \in Offsets \ {<<2, 0 - 1>>} : match[q] < CatSize
    /\ Best = <<2, 0 - 1>>
    /\ ridx = CatSize

\* C6: the reference filter is never searched against itself: no image is
\* matched with a catalog of the reference filter as its input catalog, the
\* reference filter's files are never fitted or rewritten, and on return
\* every other index has been visited exactly once.
C6_ReferenceNeverSearched ==
    /\ pc \in {"scan", "rematch", "check", "close"} =>
        /\ idx # ref_idx
        /\ input_catfile # ref_catfile
        /\ input_catfile.filt # ref_filt
    /\ ref_idx >= 0 => ref_idx \notin fitted /\ FilesOfIdx(ref_idx) \cap written = {}
    /\ \A j, k \in 1 .. Len(processed) : j # k => processed[j] # processed[k]
    /\ pc = "done" => SeqRange(processed) = (0 .. (Len(filts) - 1)) \ {ref_idx}

C7_Outcome ==
    pc = "close" =>
        /\ idx # ref_idx
        /\ ridx >= 50 <=> FilesOfIdx(idx) \subseteq written
        /\ ridx < 50 <=> FilesOfIdx(idx) \cap written = {}

C7_ReferenceUntouched ==
    ref_idx >= 0 => FilesOfIdx(ref_idx) \cap written = {}

C7_Step ==
    /\ written \subseteq written'
    /\ written' # written =>
        /\ pc = "check" /\ ridx >= 50 /\ idx # ref_idx
        /\ written' = written \cup FilesOfIdx(idx)

\* C7: the science and weight files of an image are rewritten exactly when
\* the image is not the reference and its final match has at least 50
\* pairs; with fewer than 50 nothing of that image is written, and files
\* written for earlier images are never taken back.
C7_WrittenIffAligned ==
    /\ [](C7_Outcome /\ C7_ReferenceUntouched)
    /\ [][C7_Step]_vars

\* an image left unwritten after too few matches while the files of an
\* earlier image stay rewritten
C7_Witness ==
    /\ pc = "close"
    /\ ridx < 50
    /\ written # {}
    /\ FilesOfIdx(idx) \cap written = {}

\* C8: the re-run at the best offset returns as many pairs as the scan
\* recorded for it, and a search on the same matcher behaviour as the
\* previous image's search ends with the same offset and the same match.
C8_Deterministic ==
    Rematched =>
        /\ ridx = matches_best
        /\ last.match = match =>
            last.xi_best = xi_best /\ last.yi_best = yi_best /\ last.ridx = ridx

\* two successive searches on the same matcher behaviour, with matches
C8_Witness ==
    /\ Rematched
    /\ last.match = match
    /\ ridx > 0
    /\ last.ridx = ridx

\* C9: the matcher is invoked once for each of the 36 offsets of -3..2 x
\* -3..2, xi ascending outside and yi ascending inside, and then once more
\* at the selected offset; nothing else is tried.
C9_ScanOrder ==
    /\ pc \in {"scan", "rematch", "check", "close"} =>
        /\ Len(ScanCalls) <= 36
        /\ \A k \in 1 .. Len(ScanCalls) : OffsetOf(ScanCalls[k]) = ExpectedScan[k]
    /\ pc = "scan" => Len(calls) < 36 /\ <<xi, yi>> = ExpectedScan[Len(calls) + 1]
    /\ ScanDone => Len(ScanCalls) = 36
    /\ Rematched => Len(calls) = 37 /\ OffsetOf(calls[37]) = Best

\* a search whose 37th invocation returns to an offset scanned earlier
C9_Witness ==
    /\ Rematched
    /\ Len(calls) = 37
    /\ Best # <<2, 2>>
    /\ OffsetOf(calls[37]) = Best

C10_RunningMaximum ==
    pc \in {"scan", "rematch"} /\ calls # <<>> =>
        /\ \A k \in 1 .. Len(calls) : calls[k].pairs <= matches_best
        /\ \E k \in 1 .. Len(calls) :
            OffsetOf(calls[k]) = Best /\ calls[k].pairs = matches_best

C10_Step ==
    pc = "scan" => matches_best' >= matches_best

\* C10: during the scan matches_best never decreases, after each scanned
\* offset it is the maximum count over the offsets scanned so far, and the
\* best offset is a scanned offset with that count.
C10_Monotonic ==
    /\ []C10_RunningMaximum
    /\ [][C10_Step]_vars

\* mid-scan, the best offset kept over a later offset with fewer matches
C10_Witness ==
    /\ pc = "scan"
    /\ Len(calls) >= 2
    /\ matches_best > 0
    /\ calls[Len(calls)].pairs < matches_best

\* self.cats has been built (lines 198-202 have run)
CatsBuilt ==
    pc \in {"ref", "loop", "input", "scan", "rematch", "check", "close", "close_ref", "done"}

\* C11: once self.cats is built it has exactly one entry per entry of
\* self.filts and self.cats[i] is the catalog of filter self.filts[i], so
\* the reference catalog and every input catalog read from it belong to
\* the filter of the image at the same index, whatever the catalog file
\* names are.
C11_CatsAlignedWithFilts ==
    /\ CatsBuilt =>
        /\ Len(self_cats) = Len(filts)
        /\ \A i \in 0 .. (Len(filts) - 1) : At(self_cats, i).filt = At(filts, i)
    /\ pc \in {"loop", "input", "scan", "rematch", "check", "close", "close_ref", "done"} =>
        ref_catfile.filt = At(filts, ref_idx)
    /\ pc \in {"scan", "rematch", "check", "close"} =>
        input_catfile.filt = At(filts, idx)

=============================================================================
